---- MODULE Spec2Model ----
(***************************************************************************)
(* Match scoring engine of cricket-box-backend.                            *)
(*                                                                         *)
(* The persisted Match document (models/Match.js) is the state; every     *)
(* HTTP handler of the scoring controller (startInnings, addBall,          *)
(* endInnings, selectNextBatsman, selectNextBowler) is one action that     *)
(* loads the document, runs the handler's code on the loaded copy and,     *)
(* where the handler calls match.save(), writes the copy back.             *)
(*                                                                         *)
(* A name that JavaScript holds as null/undefined is NULL here.  String    *)
(* templates are tuples: the partnership key `${a}___${b}` is <<a, b>>,    *)
(* the overs string `${o}.${b}` is <<o, b>>.  The opaque fields wicketBy,  *)
(* commentary and timestamp of a ball are copied by the code and read by   *)
(* nothing; they are left out of the ball record.                          *)
(***************************************************************************)
EXTENDS Integers, Sequences, FiniteSets, TLC

VARIABLES db, resp, reqs, calc

vars == <<db, resp, reqs, calc>>

NULL == "null"

\* ------------------------------------------------------------------ bounds
\* balls recorded in one match (both innings together), any kind of delivery
MaxBalls == 2
\* balls recorded in one match of the whole-overs specification
MaxOverBalls == 7
\* addBall requests in flight or answered in the interleaved specification
MaxRequests == 2
\* largest innings total handed to the result calculator
MaxTotal == 10
\* balls recorded in one match of the bowler-validation specification
MaxBowlBalls == 8
\* balls recorded in one match of the strike-rotation specification
MaxStrikeBalls == 6
\* balls recorded in one match of the all-wickets specification
MaxWicketBalls == 11
\* balls recorded in one match of the scoreboard specification
MaxBoardBalls == 7

\* ------------------------------------------------------- program constants
BallsPerOver == 6

\* ------------------------------------------------------------ input values
Bowlers == {"X", "Y"}
Teams == {"A", "B"}
NoExtras == [wide |-> 0, noBall |-> 0, bye |-> 0, legBye |-> 0, penalty |-> 0]

\* ---------------------------------------------------------------- helpers
formatOversFromBalls(legalDeliveries) ==
  <<legalDeliveries \div BallsPerOver, legalDeliveries % BallsPerOver>>

NewBatsman(name) ==
  [name |-> name, runs |-> 0, balls |-> 0, fours |-> 0, sixes |-> 0,
   isOut |-> FALSE, dismissal |-> NULL]

NewBowler(name) ==
  [name |-> name, balls |-> 0, runs |-> 0, wickets |-> 0, wides |-> 0, noBalls |-> 0]

\* innings.batsmen.find(x => x.name === name), pushing a fresh entry if absent
ensureBatsman(innings, name) ==
  IF \E i \in 1..Len(innings.batsmen) : innings.batsmen[i].name = name
  THEN innings
  ELSE [innings EXCEPT !.batsmen = Append(@, NewBatsman(name))]

ensureBowler(innings, name) ==
  IF \E i \in 1..Len(innings.bowlers) : innings.bowlers[i].name = name
  THEN innings
  ELSE [innings EXCEPT !.bowlers = Append(@, NewBowler(name))]

BatsmanIdx(innings, name) ==
  CHOOSE i \in 1..Len(innings.batsmen) :
    /\ innings.batsmen[i].name = name
    /\ \A j \in 1..(i - 1) : innings.batsmen[j].name # name

BowlerIdx(innings, name) ==
  CHOOSE i \in 1..Len(innings.bowlers) :
    /\ innings.bowlers[i].name = name
    /\ \A j \in 1..(i - 1) : innings.bowlers[j].name # name

IsLegalBall(b) == b.ballInOver > 0

LegalBalls(innings) == SelectSeq(innings.balls, IsLegalBall)

LegalBallsOfOver(innings, k) ==
  LET InOver(b) == b.over = k /\ b.ballInOver > 0
  IN SelectSeq(innings.balls, InOver)

\* mutant: the previous over is found from the last ball of the log, legal or not
bowledPreviousOverAnyBall(innings, bowlerName) ==
  IF Len(innings.balls) = 0 THEN FALSE
  ELSE LET lastBall == innings.balls[Len(innings.balls)]
           ballsInLastOver == LegalBallsOfOver(innings, lastBall.over)
       IN IF Len(ballsInLastOver) = 0 THEN FALSE
          ELSE ballsInLastOver[1].bowler = bowlerName

bowledPreviousOver(innings, bowlerName) ==
  IF Len(innings.balls) = 0 THEN FALSE
  ELSE LET legalDeliveries == LegalBalls(innings) IN
    IF Len(legalDeliveries) = 0 THEN FALSE
    ELSE LET lastLegal == legalDeliveries[Len(legalDeliveries)]
             ballsInLastOver == LegalBallsOfOver(innings, lastLegal.over)
         IN IF Len(ballsInLastOver) = 0 THEN FALSE
            ELSE ballsInLastOver[1].bowler = bowlerName

swapStrike(innings) ==
  [innings EXCEPT !.currentPartnership.striker = innings.currentPartnership.nonStriker,
                  !.currentPartnership.nonStriker = innings.currentPartnership.striker]

\* ------------------------------------------------------------------ addBall
\* mutant: only a wide makes the delivery illegal
isLegalDeliveryWideOnly(extras) == ~(extras.wide > 0)

\* Delivery classifier: a wide or a no-ball makes the delivery illegal.
isLegalDelivery(extras) == ~(extras.wide > 0 \/ extras.noBall > 0)

\* The inline consecutive-over check of addBall.
consecutiveOverRejected(innings, bowlerName, extras) ==
  LET legalDeliveriesSoFar == innings.legalDeliveries
      currentOverIndex == legalDeliveriesSoFar \div BallsPerOver
      lastCompletedOverIndex == currentOverIndex - 1
      ballsInLastCompletedOver == LegalBallsOfOver(innings, lastCompletedOverIndex)
  IN /\ bowledPreviousOver(innings, bowlerName)
     /\ isLegalDelivery(extras)
     /\ (legalDeliveriesSoFar \div BallsPerOver)
          # ((legalDeliveriesSoFar - 1) \div BallsPerOver)
     /\ lastCompletedOverIndex >= 0
     /\ Len(ballsInLastCompletedOver) > 0
     /\ ballsInLastCompletedOver[1].bowler = bowlerName

extrasTotal(extras) ==
  extras.wide + extras.noBall + extras.bye + extras.legBye + extras.penalty

totalRunsThisBall(payload) == payload.runs + extrasTotal(payload.extras)

\* mutant: the over index is taken from the length of the ball log
ballRecordOfLogLength(innings, payload) ==
  [over |-> Len(innings.balls) \div BallsPerOver,
   ballInOver |-> IF isLegalDelivery(payload.extras)
                  THEN (innings.legalDeliveries % BallsPerOver) + 1 ELSE 0,
   striker |-> innings.currentPartnership.striker,
   nonStriker |-> innings.currentPartnership.nonStriker,
   bowler |-> payload.bowler,
   runs |-> payload.runs,
   extras |-> payload.extras,
   totalRunsThisBall |-> totalRunsThisBall(payload),
   isWicket |-> payload.isWicket,
   wicketType |-> payload.wicketType,
   wicketPlayer |-> payload.wicketPlayer]

ballRecordOf(innings, payload) ==
  [over |-> innings.legalDeliveries \div BallsPerOver,
   ballInOver |-> IF isLegalDelivery(payload.extras)
                  THEN (innings.legalDeliveries % BallsPerOver) + 1 ELSE 0,
   striker |-> innings.currentPartnership.striker,
   nonStriker |-> innings.currentPartnership.nonStriker,
   bowler |-> payload.bowler,
   runs |-> payload.runs,
   extras |-> payload.extras,
   totalRunsThisBall |-> totalRunsThisBall(payload),
   isWicket |-> payload.isWicket,
   wicketType |-> payload.wicketType,
   wicketPlayer |-> payload.wicketPlayer]

\* mutant: the innings total grows by the runs off the bat only
pushBallBatRunsOnly(innings, rec) ==
  [innings EXCEPT !.balls = Append(@, rec),
                  !.totalRuns = @ + rec.runs]

\* mutant: the new ball is put in front of the log
pushBallFront(innings, rec) ==
  [innings EXCEPT !.balls = <<rec>> \o @,
                  !.totalRuns = @ + rec.totalRunsThisBall]

\* innings.balls.push(ballRecord); innings.totalRuns += totalRunsThisBall
pushBall(innings, rec) ==
  [innings EXCEPT !.balls = Append(@, rec),
                  !.totalRuns = @ + rec.totalRunsThisBall]

\* mutant: byes, leg-byes and penalty runs are not charged to the bowler
updateBowlerStatsNoByes(innings, rec) ==
  LET i1 == ensureBowler(innings, rec.bowler)
      k == BowlerIdx(i1, rec.bowler)
      legal == isLegalDelivery(rec.extras)
  IN [i1 EXCEPT !.bowlers[k].runs = @ + rec.runs + rec.extras.wide + rec.extras.noBall,
                !.bowlers[k].wides = @ + rec.extras.wide,
                !.bowlers[k].noBalls = @ + rec.extras.noBall,
                !.bowlers[k].balls = IF legal THEN @ + 1 ELSE @]

\* bowlerStat.runs / wides / noBalls, and balls for a legal delivery
updateBowlerStats(innings, rec) ==
  LET i1 == ensureBowler(innings, rec.bowler)
      k == BowlerIdx(i1, rec.bowler)
      legal == isLegalDelivery(rec.extras)
  IN [i1 EXCEPT !.bowlers[k].runs = @ + rec.totalRunsThisBall,
                !.bowlers[k].wides = @ + rec.extras.wide,
                !.bowlers[k].noBalls = @ + rec.extras.noBall,
                !.bowlers[k].balls = IF legal THEN @ + 1 ELSE @]

creditBatRuns(innings, name, runs, faced) ==
  LET i1 == ensureBatsman(innings, name)
      k == BatsmanIdx(i1, name)
  IN [i1 EXCEPT !.batsmen[k].balls = IF faced THEN @ + 1 ELSE @,
                !.batsmen[k].runs = @ + runs,
                !.batsmen[k].fours = IF runs = 4 THEN @ + 1 ELSE @,
                !.batsmen[k].sixes = IF runs = 6 THEN @ + 1 ELSE @]

\* mutant: bat runs off a no-ball are not credited to the striker
updateStrikerStatsLegalOnly(innings, rec) ==
  IF isLegalDelivery(rec.extras)
  THEN creditBatRuns([innings EXCEPT !.legalDeliveries = @ + 1],
                     rec.striker, rec.runs, TRUE)
  ELSE innings

\* legalDeliveries and the striker's ledger entry
updateStrikerStats(innings, rec) ==
  IF isLegalDelivery(rec.extras)
  THEN creditBatRuns([innings EXCEPT !.legalDeliveries = @ + 1],
                     rec.striker, rec.runs, TRUE)
  ELSE IF rec.extras.noBall > 0 /\ rec.runs > 0
       THEN creditBatRuns(innings, rec.striker, rec.runs, FALSE)
       ELSE innings

\* String.prototype.toLowerCase on the dismissal kinds the inputs draw from
toLowerCase(s) ==
  CASE s = "RunOut" -> "runout"
    [] s = "Retired" -> "retired"
    [] OTHER -> s

BowlerNeutral(wicketType) ==
  LET wt == toLowerCase(IF wicketType = NULL THEN "" ELSE wicketType)
  IN wt = "runout" \/ wt = "obstructingthefield" \/ wt = "retired"

\* mutant: the bowler is credited with every wicket
creditBowlerWicketAlways(innings, rec) ==
  [innings EXCEPT !.bowlers[BowlerIdx(innings, rec.bowler)].wickets = @ + 1]

creditBowlerWicket(innings, rec) ==
  IF BowlerNeutral(rec.wicketType) THEN innings
  ELSE [innings EXCEPT !.bowlers[BowlerIdx(innings, rec.bowler)].wickets = @ + 1]

markBatsmanOut(innings, rec) ==
  LET i1 == ensureBatsman(innings, rec.wicketPlayer)
      k == BatsmanIdx(i1, rec.wicketPlayer)
  IN [i1 EXCEPT !.batsmen[k].isOut = TRUE,
                !.batsmen[k].dismissal =
                    IF rec.wicketType = NULL THEN "out" ELSE rec.wicketType,
                !.fallOfWickets = Append(@,
                    [batsman |-> rec.wicketPlayer,
                     scoreAtFall |-> i1.totalRuns,
                     over |-> formatOversFromBalls(i1.legalDeliveries)])]

archivePartnership(innings) ==
  LET curPart == innings.currentPartnership
      key == <<curPart.striker, curPart.nonStriker>>
      old == IF key \in DOMAIN innings.partnerships THEN innings.partnerships[key] ELSE 0
  IN IF curPart.striker # NULL /\ curPart.nonStriker # NULL
     THEN [innings EXCEPT !.partnerships =
             [k \in (DOMAIN innings.partnerships) \cup {key} |->
                IF k = key THEN old + curPart.runs ELSE innings.partnerships[k]]]
     ELSE innings

resetPartnership(innings, rec) ==
  IF rec.wicketPlayer = innings.currentPartnership.striker
  THEN [innings EXCEPT !.currentPartnership.striker = NULL,
                       !.currentPartnership.runs = 0]
  ELSE IF rec.wicketPlayer = innings.currentPartnership.nonStriker
       THEN [innings EXCEPT !.currentPartnership.nonStriker = NULL,
                            !.currentPartnership.runs = 0]
       ELSE [innings EXCEPT !.currentPartnership.runs = 0]

\* the isWicket branch of addBall
resolveWicket(innings, rec) ==
  LET i1 == creditBowlerWicket([innings EXCEPT !.wickets = @ + 1], rec)
  IN IF rec.wicketPlayer # NULL
     THEN resetPartnership(archivePartnership(markBatsmanOut(i1, rec)), rec)
     ELSE i1

\* mutant: the strike decision looks at the runs off the bat only
rotateOnBatRuns(innings, rec) ==
  LET i1 == [innings EXCEPT !.currentPartnership.runs = @ + rec.totalRunsThisBall]
  IN IF rec.runs % 2 = 1 THEN swapStrike(i1) ELSE i1

\* mutant: the odd-run swap is made for legal deliveries only
rotateOnRunsLegalOnly(innings, rec) ==
  LET i1 == [innings EXCEPT !.currentPartnership.runs = @ + rec.totalRunsThisBall]
      runsForStrikeDecision == rec.runs + rec.extras.bye + rec.extras.legBye
  IN IF runsForStrikeDecision % 2 = 1 /\ isLegalDelivery(rec.extras)
     THEN swapStrike(i1) ELSE i1

\* the no-wicket branch: partnership runs and the odd-run strike swap
rotateOnRuns(innings, rec) ==
  LET i1 == [innings EXCEPT !.currentPartnership.runs = @ + rec.totalRunsThisBall]
      runsForStrikeDecision == rec.runs + rec.extras.bye + rec.extras.legBye
  IN IF runsForStrikeDecision % 2 = 1 THEN swapStrike(i1) ELSE i1

\* mutant: no swap at the end of an over that ends with a wicket
overCompletedNoWicket(innings, rec) ==
  IF isLegalDelivery(rec.extras) /\ innings.legalDeliveries % BallsPerOver = 0
     /\ ~rec.isWicket
  THEN swapStrike(innings)
  ELSE innings

\* the swap at the end of an over
overCompleted(innings, rec) ==
  IF isLegalDelivery(rec.extras) /\ innings.legalDeliveries % BallsPerOver = 0
  THEN swapStrike(innings)
  ELSE innings

\* mutant: the innings ends one over late
checkOversLimitStrict(innings) ==
  LET completedOvers == innings.legalDeliveries \div BallsPerOver
  IN IF innings.oversLimit # 0 /\ completedOvers > innings.oversLimit
     THEN [innings EXCEPT !.completed = TRUE]
     ELSE innings

\* mutant: the innings also ends when ten wickets are down
checkOversLimitOrAllOut(innings) ==
  LET completedOvers == innings.legalDeliveries \div BallsPerOver
  IN IF (innings.oversLimit # 0 /\ completedOvers >= innings.oversLimit)
        \/ innings.wickets >= 10
     THEN [innings EXCEPT !.completed = TRUE]
     ELSE innings

\* overs limit reached
checkOversLimit(innings) ==
  LET completedOvers == innings.legalDeliveries \div BallsPerOver
  IN IF innings.oversLimit # 0 /\ completedOvers >= innings.oversLimit
     THEN [innings EXCEPT !.completed = TRUE]
     ELSE innings

\* every in-memory update addBall makes to the active innings
applyBall(innings, payload) ==
  LET rec == ballRecordOf(innings, payload)
      i1 == pushBall(innings, rec)
      i2 == updateBowlerStats(i1, rec)
      i3 == updateStrikerStats(i2, rec)
      i4 == IF rec.isWicket THEN resolveWicket(i3, rec) ELSE rotateOnRuns(i3, rec)
      i5 == overCompleted(i4, rec)
  IN checkOversLimit(i5)

complementTeam(teamName) == IF teamName = "A" THEN "B" ELSE "A"

\* mutant: equal totals go to the side batting second
determineWinnerGe(m) ==
  LET firstTotal == m.innings[1].totalRuns
      secondTotal == m.innings[2].totalRuns
  IN IF secondTotal >= firstTotal
     THEN [winner |-> m.innings[2].teamName,
           summary |-> <<m.innings[2].teamName, "won by",
                         m.innings[2].totalRuns - m.innings[1].totalRuns, "runs">>]
     ELSE [winner |-> m.innings[1].teamName,
           summary |-> <<m.innings[1].teamName, "won">>]

\* the winner and summary addBall computes when the second innings completes
determineWinner(m) ==
  LET firstTotal == m.innings[1].totalRuns
      secondTotal == m.innings[2].totalRuns
  IN IF secondTotal > firstTotal
     THEN [winner |-> m.innings[2].teamName,
           summary |-> <<m.innings[2].teamName, "won by",
                         m.innings[2].totalRuns - m.innings[1].totalRuns, "runs">>]
     ELSE IF secondTotal < firstTotal
          THEN [winner |-> m.innings[1].teamName,
                summary |-> <<m.innings[1].teamName, "won">>]
          ELSE [winner |-> "tie", summary |-> <<"Match tied">>]

\* mutant: the match is completed without a result
advanceInningsNoResult(m) ==
  IF ~m.innings[m.currentInningsIndex + 1].completed THEN m
  ELSE IF m.currentInningsIndex = 0
       THEN [m EXCEPT !.innings[2].teamName =
                        IF @ = NULL THEN complementTeam(m.innings[1].teamName) ELSE @,
                      !.currentInningsIndex = 1]
       ELSE [m EXCEPT !.status = "completed"]

\* the innings transition of addBall, taken when the active innings is completed
advanceInnings(m) ==
  IF ~m.innings[m.currentInningsIndex + 1].completed THEN m
  ELSE IF m.currentInningsIndex = 0
       THEN [m EXCEPT !.innings[2].teamName =
                        IF @ = NULL THEN complementTeam(m.innings[1].teamName) ELSE @,
                      !.currentInningsIndex = 1]
       ELSE [m EXCEPT !.status = "completed", !.result = determineWinner(m)]

Response(code, message, m, saved) ==
  [code |-> code, message |-> message, match |-> m, saved |-> saved]

\* mutant: only the striker slot is checked
rejectReasonStrikerOnly(m, payload) ==
  LET innings == m.innings[m.currentInningsIndex + 1]
  IN IF m.status # "in_progress" THEN "Match not in progress"
     ELSE IF innings.completed THEN "Innings already completed"
     ELSE IF payload.bowler = NULL THEN "bowler is required"
     ELSE IF consecutiveOverRejected(innings, payload.bowler, payload.extras)
          THEN "Bowler cannot bowl consecutive overs"
     ELSE IF innings.currentPartnership.striker = NULL
          THEN "Both striker and nonStriker must be set"
     ELSE "none"

\* the early returns of addBall, in the order the handler takes them
rejectReason(m, payload) ==
  LET innings == m.innings[m.currentInningsIndex + 1]
  IN IF m.status # "in_progress" THEN "Match not in progress"
     ELSE IF innings.completed THEN "Innings already completed"
     ELSE IF payload.bowler = NULL THEN "bowler is required"
     ELSE IF consecutiveOverRejected(innings, payload.bowler, payload.extras)
          THEN "Bowler cannot bowl consecutive overs"
     ELSE IF innings.currentPartnership.striker = NULL
             \/ innings.currentPartnership.nonStriker = NULL
          THEN "Both striker and nonStriker must be set"
     ELSE "none"

\* mutant: the consecutive-over rule is checked after the ball was pushed and
\* the document saved
addBallValidateLate(m, payload) ==
  LET idx == m.currentInningsIndex
      innings == m.innings[idx + 1]
      reason == rejectReason(m, payload)
  IN IF reason = "Bowler cannot bowl consecutive overs"
     THEN Response(400, reason,
            [m EXCEPT !.innings[idx + 1] = pushBall(innings, ballRecordOf(innings, payload))],
            TRUE)
     ELSE IF reason # "none" THEN Response(400, reason, m, FALSE)
     ELSE Response(200, "Ball recorded",
            advanceInnings([m EXCEPT !.innings[idx + 1] = applyBall(innings, payload)]),
            TRUE)

\* The handler on a loaded document m: the response, the document as the
\* handler leaves it in memory, and whether match.save() was reached.
addBall(m, payload) ==
  LET idx == m.currentInningsIndex
      innings == m.innings[idx + 1]
      reason == rejectReason(m, payload)
  IN IF reason # "none" THEN Response(400, reason, m, FALSE)
     ELSE Response(200, "Ball recorded",
            advanceInnings([m EXCEPT !.innings[idx + 1] = applyBall(innings, payload)]),
            TRUE)

\* ------------------------------------------------------------- startInnings
startInnings(m, striker, nonStriker, bowler) ==
  IF striker = NULL \/ nonStriker = NULL \/ bowler = NULL
  THEN Response(400, "striker, nonStriker and bowler required", m, FALSE)
  ELSE LET idx == m.currentInningsIndex
           i0 == [m.innings[idx + 1] EXCEPT !.currentPartnership =
                    [striker |-> striker, nonStriker |-> nonStriker, runs |-> 0]]
           i1 == ensureBowler(ensureBatsman(ensureBatsman(i0, striker), nonStriker),
                              bowler)
       IN Response(200, "Innings initialized", [m EXCEPT !.innings[idx + 1] = i1], TRUE)

\* --------------------------------------------------------------- endInnings
\* mutant: equal totals go to the side batting first
finalizeResultTieToFirst(m) ==
  LET firstTotal == m.innings[1].totalRuns
      secondTotal == m.innings[2].totalRuns
  IN IF secondTotal > firstTotal
     THEN [winner |-> m.innings[2].teamName,
           summary |-> <<m.innings[2].teamName, "won by",
                         m.innings[2].totalRuns - m.innings[1].totalRuns, "runs">>]
     ELSE [winner |-> m.innings[1].teamName,
           summary |-> <<m.innings[1].teamName, "won">>]

\* the winner and summary endInnings computes when it finalizes the match
finalizeResult(m) ==
  LET firstTotal == m.innings[1].totalRuns
      secondTotal == m.innings[2].totalRuns
  IN IF secondTotal > firstTotal
     THEN [winner |-> m.innings[2].teamName,
           summary |-> <<m.innings[2].teamName, "won by",
                         m.innings[2].totalRuns - m.innings[1].totalRuns, "runs">>]
     ELSE IF secondTotal < firstTotal
          THEN [winner |-> m.innings[1].teamName,
                summary |-> <<m.innings[1].teamName, "won">>]
          ELSE [winner |-> "tie", summary |-> <<"Match tied">>]

\* mutant: the result is computed when the first innings ends as well
endInningsEarlyResult(m) ==
  LET idx == m.currentInningsIndex
      m1 == [m EXCEPT !.innings[idx + 1].completed = TRUE]
  IN IF m1.currentInningsIndex = 0
     THEN Response(200, "Innings ended",
            [m1 EXCEPT !.innings[2].teamName =
                         IF @ = NULL THEN complementTeam(m1.innings[1].teamName) ELSE @,
                       !.currentInningsIndex = 1,
                       !.result = finalizeResult(m1)],
            TRUE)
     ELSE Response(200, "Innings ended",
            [m1 EXCEPT !.status = "completed", !.result = finalizeResult(m1)],
            TRUE)

\* mutant: the first innings is left behind without its completed flag
endInningsSkipsFlag(m) ==
  LET idx == m.currentInningsIndex
      m1 == [m EXCEPT !.innings[idx + 1].completed = TRUE]
  IN IF m.currentInningsIndex = 0
     THEN Response(200, "Innings ended",
            [m EXCEPT !.innings[2].teamName =
                        IF @ = NULL THEN complementTeam(m.innings[1].teamName) ELSE @,
                      !.currentInningsIndex = 1],
            TRUE)
     ELSE Response(200, "Innings ended",
            [m1 EXCEPT !.status = "completed", !.result = finalizeResult(m1)],
            TRUE)

endInnings(m) ==
  LET idx == m.currentInningsIndex
      m1 == [m EXCEPT !.innings[idx + 1].completed = TRUE]
  IN IF m1.currentInningsIndex = 0
     THEN Response(200, "Innings ended",
            [m1 EXCEPT !.innings[2].teamName =
                         IF @ = NULL THEN complementTeam(m1.innings[1].teamName) ELSE @,
                       !.currentInningsIndex = 1],
            TRUE)
     ELSE Response(200, "Innings ended",
            [m1 EXCEPT !.status = "completed", !.result = finalizeResult(m1)],
            TRUE)

\* endInnings reaches its result calculation: the else-branch of the test on
\* currentInningsIndex, which no earlier return guards
endInningsRunsCalculator(m) == m.currentInningsIndex # 0

\* addBall reaches its result calculation: the ball is accepted, the active
\* innings is completed by it and it is not the first innings
addBallRunsCalculator(m, payload) ==
  /\ rejectReason(m, payload) = "none"
  /\ applyBall(m.innings[m.currentInningsIndex + 1], payload).completed
  /\ m.currentInningsIndex # 0

\* -------------------------------------------------------- selectNextBatsman
\* The handler fills the slot on the loaded document and then evaluates
\* io.to(roomId), two names bound nowhere in its scope: the ReferenceError goes
\* to the error handler (500).  It never calls match.save().
selectNextBatsman(m, name) ==
  IF name = NULL THEN Response(400, "Batsman name required", m, FALSE)
  ELSE LET idx == m.currentInningsIndex
           i1 == ensureBatsman(m.innings[idx + 1], name)
       IN IF i1.currentPartnership.striker = NULL
          THEN Response(500, "ReferenceError",
                 [m EXCEPT !.innings[idx + 1] =
                    [i1 EXCEPT !.currentPartnership.striker = name]], FALSE)
          ELSE IF i1.currentPartnership.nonStriker = NULL
               THEN Response(500, "ReferenceError",
                      [m EXCEPT !.innings[idx + 1] =
                         [i1 EXCEPT !.currentPartnership.nonStriker = name]], FALSE)
               ELSE Response(400, "No wicket waiting for a new batsman",
                      [m EXCEPT !.innings[idx + 1] = i1], FALSE)

\* --------------------------------------------------------- selectNextBowler
\* mutant: the previous over's bowler is read from its last legal ball
selectNextBowlerLastBall(m, bowler) ==
  IF bowler = NULL THEN Response(400, "Bowler name required", m, FALSE)
  ELSE LET idx == m.currentInningsIndex
           innings == m.innings[idx + 1]
           legalBalls == innings.legalDeliveries
           lastCompletedOver == (legalBalls - 1) \div BallsPerOver
           ballsInLastOver == LegalBallsOfOver(innings, lastCompletedOver)
       IN IF legalBalls # 0 /\ legalBalls % BallsPerOver # 0
          THEN Response(400, "Over not completed yet", m, FALSE)
          ELSE IF Len(ballsInLastOver) > 0
                  /\ ballsInLastOver[Len(ballsInLastOver)].bowler = bowler
               THEN Response(400, "Bowler cannot bowl consecutive overs", m, FALSE)
               ELSE Response(200, "Next bowler validated",
                      [m EXCEPT !.innings[idx + 1] = ensureBowler(innings, bowler)],
                      FALSE)

\* mutant: the document with the new ledger entry is saved
selectNextBowlerSaved(m, bowler) ==
  IF bowler = NULL THEN Response(400, "Bowler name required", m, FALSE)
  ELSE LET idx == m.currentInningsIndex
           innings == m.innings[idx + 1]
           legalBalls == innings.legalDeliveries
           lastCompletedOver == (legalBalls - 1) \div BallsPerOver
           ballsInLastOver == LegalBallsOfOver(innings, lastCompletedOver)
       IN IF legalBalls # 0 /\ legalBalls % BallsPerOver # 0
          THEN Response(400, "Over not completed yet", m, FALSE)
          ELSE IF Len(ballsInLastOver) > 0 /\ ballsInLastOver[1].bowler = bowler
               THEN Response(400, "Bowler cannot bowl consecutive overs", m, FALSE)
               ELSE Response(200, "Next bowler validated",
                      [m EXCEPT !.innings[idx + 1] = ensureBowler(innings, bowler)],
                      TRUE)

selectNextBowler(m, bowler) ==
  IF bowler = NULL THEN Response(400, "Bowler name required", m, FALSE)
  ELSE LET idx == m.currentInningsIndex
           innings == m.innings[idx + 1]
           legalBalls == innings.legalDeliveries
           lastCompletedOver == (legalBalls - 1) \div BallsPerOver
           ballsInLastOver == LegalBallsOfOver(innings, lastCompletedOver)
       IN IF legalBalls # 0 /\ legalBalls % BallsPerOver # 0
          THEN Response(400, "Over not completed yet", m, FALSE)
          ELSE IF Len(ballsInLastOver) > 0 /\ ballsInLastOver[1].bowler = bowler
               THEN Response(400, "Bowler cannot bowl consecutive overs", m, FALSE)
               ELSE Response(200, "Next bowler validated",
                      [m EXCEPT !.innings[idx + 1] = ensureBowler(innings, bowler)],
                      FALSE)

\* ------------------------------------------- getScoreboard, getMatchDetails
\* a required rate is null or a number, kept in hundredths
NullRate == [isNull |-> TRUE, hundredths |-> 0]

Rate(hundredths) == [isNull |-> FALSE, hundredths |-> hundredths]

Abs(n) == IF n < 0 THEN 0 - n ELSE n

\* parseFloat((num / den).toFixed(2)), in hundredths: the nearest hundredth
toFixed2(num, den) ==
  LET magnitude == (Abs(num) * 200 + Abs(den)) \div (2 * Abs(den))
  IN IF (num < 0) # (den < 0) THEN 0 - magnitude ELSE magnitude

Max(a, b) == IF a >= b THEN a ELSE b

\* requiredRate of getScoreboard
getScoreboardRequiredRate(m) ==
  IF m.currentInningsIndex = 1
  THEN LET target == m.innings[1].totalRuns + 1
           second == m.innings[2]
           ballsLeft == second.oversLimit * BallsPerOver - second.legalDeliveries
           runsLeft == Max(0, target - second.totalRuns)
       IN IF ballsLeft = 0 THEN NullRate
          ELSE Rate(toFixed2(runsLeft * BallsPerOver, ballsLeft))
  ELSE NullRate

\* requiredRate of getMatchDetails
getMatchDetailsRequiredRate(m) ==
  IF m.status # "not_started" /\ m.currentInningsIndex = 1
  THEN LET first == m.innings[1]
           second == m.innings[2]
           target == first.totalRuns + 1
           runsLeft == target - second.totalRuns
           ballsLeft == second.oversLimit * BallsPerOver - second.legalDeliveries
       IN IF ballsLeft > 0 /\ runsLeft > 0
          THEN Rate(toFixed2(runsLeft * BallsPerOver, ballsLeft))
          ELSE NullRate
  ELSE NullRate

\* -------------------------------------------------------------- createMatch
NewInnings(teamName, oversLimit) ==
  [teamName |-> teamName, balls |-> <<>>, totalRuns |-> 0, wickets |-> 0,
   legalDeliveries |-> 0, oversLimit |-> oversLimit,
   batsmen |-> <<>>, bowlers |-> <<>>, fallOfWickets |-> <<>>,
   partnerships |-> <<>>,
   currentPartnership |-> [striker |-> NULL, nonStriker |-> NULL, runs |-> 0],
   completed |-> FALSE]

\* The match as it is created from the room's toss context: two empty innings,
\* the first team batting, the second innings' team either unset or the other
\* team, one overs limit for both innings.
createMatch(status, firstTeam, secondTeam, oversLimit) ==
  [status |-> status,
   currentInningsIndex |-> 0,
   innings |-> <<NewInnings(firstTeam, oversLimit), NewInnings(secondTeam, oversLimit)>>,
   result |-> [winner |-> NULL, summary |-> <<>>]]

\* ------------------------------------------------------------------- inputs
Payload(bowler, runs, extras, isWicket, wicketType, wicketPlayer) ==
  [bowler |-> bowler, runs |-> runs, extras |-> extras, isWicket |-> isWicket,
   wicketType |-> wicketType, wicketPlayer |-> wicketPlayer]

\* ordinary deliveries, and the request that names no bowler
PlainPayloads ==
  {Payload("X", 0, NoExtras, FALSE, NULL, NULL),
   Payload("X", 1, NoExtras, FALSE, NULL, NULL),
   Payload("X", 4, NoExtras, FALSE, NULL, NULL),
   Payload("Y", 1, NoExtras, FALSE, NULL, NULL),
   Payload(NULL, 0, NoExtras, FALSE, NULL, NULL)}

\* deliveries that carry extras, with and without runs off the bat
ExtraPayloads ==
  {Payload("X", 0, [NoExtras EXCEPT !.wide = 1], FALSE, NULL, NULL),
   Payload("Y", 1, [NoExtras EXCEPT !.noBall = 1], FALSE, NULL, NULL),
   Payload("X", 0, [NoExtras EXCEPT !.bye = 1], FALSE, NULL, NULL),
   Payload("Y", 0, [NoExtras EXCEPT !.legBye = 1], FALSE, NULL, NULL),
   Payload("X", 0, [NoExtras EXCEPT !.penalty = 1], FALSE, NULL, NULL),
   Payload("X", 1, [NoExtras EXCEPT !.wide = 1, !.bye = 1], FALSE, NULL, NULL)}

\* wicket balls: dismissal kinds with and without bowler credit, the striker,
\* the non-striker, a name outside the partnership and no name at all
WicketPayloads ==
  {Payload("X", 0, NoExtras, TRUE, "bowled", "A"),
   Payload("X", 0, NoExtras, TRUE, "RunOut", "B"),
   Payload("X", 0, NoExtras, TRUE, NULL, "B"),
   Payload("X", 0, NoExtras, TRUE, "bowled", "Z"),
   Payload("X", 0, NoExtras, TRUE, "bowled", NULL),
   Payload("Y", 1, [NoExtras EXCEPT !.bye = 1], TRUE, "runout", "A")}

Payloads == PlainPayloads \cup ExtraPayloads \cup WicketPayloads

\* openers and opening bowler of startInnings; NULL is a missing field
StartInputs == {<<"A", "B", "X">>, <<NULL, "B", "X">>}

\* startInnings is called on an innings that holds this many balls
RestartAt == {0, 1}

NextBatsmen == {"C", NULL}
NextBowlers == Bowlers \cup {NULL}

\* ------------------------------------------------------------------ actions
IsSpecialBall(b) == b.isWicket \/ extrasTotal(b.extras) > 0

TotalBalls(m) == Len(m.innings[1].balls) + Len(m.innings[2].balls)

CurrentInnings(m) == m.innings[m.currentInningsIndex + 1]

\* what the database holds once the request is over
Persisted(m, r) == IF r.saved THEN r.match ELSE m

\* One request served start to end: the response goes to the caller and the
\* document is written back only if the handler reached match.save().
Serve(op, r) ==
  /\ db' = Persisted(db, r)
  /\ resp' = [op |-> op, code |-> r.code, message |-> r.message]
  /\ UNCHANGED <<reqs, calc>>

StartInningsFrom(Inputs, At) ==
  \E in \in Inputs :
    /\ Len(CurrentInnings(db).balls) \in At
    /\ Serve("startInnings", startInnings(db, in[1], in[2], in[3]))

AddBallFrom(Ps, maxBalls) ==
  \E p \in Ps :
    /\ TotalBalls(db) < maxBalls
    /\ Serve("addBall", addBall(db, p))

NoRequests == <<>>
NoCalc == [first |-> 0, second |-> 0, via |-> "none", result |-> NULL]
NoResp == [op |-> "none", code |-> 0, message |-> ""]

InitWith(Matches) ==
  /\ db \in Matches
  /\ resp = NoResp
  /\ reqs = NoRequests
  /\ calc = NoCalc

\* ---------------------------------------------- Spec: every kind of delivery
StartInnings == StartInningsFrom(StartInputs, RestartAt)

AddBall == AddBallFrom(Payloads, MaxBalls)

EndInnings == Serve("endInnings", endInnings(db))

SelectNextBatsman ==
  \E name \in NextBatsmen : Serve("selectNextBatsman", selectNextBatsman(db, name))

SelectNextBowler ==
  \E bowler \in NextBowlers : Serve("selectNextBowler", selectNextBowler(db, bowler))

InitialMatches ==
  {createMatch(st, "A", NULL, 1) : st \in {"not_started", "in_progress"}}
    \cup {createMatch("in_progress", "B", NULL, 1),
          createMatch("in_progress", "A", "B", 0)}

Init == InitWith(InitialMatches)

Next ==
  \/ StartInnings
  \/ AddBall
  \/ EndInnings
  \/ SelectNextBatsman
  \/ SelectNextBowler

Spec == Init /\ [][Next]_vars

\* ------------------------------------------ SpecOvers: whole overs, two bowlers
OverPayloads ==
  {Payload("X", 0, NoExtras, FALSE, NULL, NULL),
   Payload("X", 1, NoExtras, FALSE, NULL, NULL),
   Payload("Y", 0, NoExtras, FALSE, NULL, NULL),
   Payload(NULL, 0, NoExtras, FALSE, NULL, NULL)}

OverStartInnings == StartInningsFrom({<<"A", "B", "X">>}, {0})

OverAddBall == AddBallFrom(OverPayloads, MaxOverBalls)

OverEndInnings == Serve("endInnings", endInnings(db))

OverMatches ==
  {createMatch("in_progress", "A", NULL, 1),
   createMatch("in_progress", "B", NULL, 1),
   createMatch("in_progress", "A", "B", 2),
   createMatch("not_started", "B", NULL, 1)}

InitOvers == InitWith(OverMatches)

NextOvers ==
  \/ OverStartInnings
  \/ OverAddBall
  \/ OverEndInnings

SpecOvers == InitOvers /\ [][NextOvers]_vars

\* ------------------------------- SpecConc: addBall requests that interleave
\* addBall awaits Match.findById, runs without yielding up to match.save(), and
\* awaits the save.  No lock, transaction or version check is taken in between,
\* so a request is two steps: the load of the document, and the rest of the
\* handler on the loaded copy, which ends by writing the whole copy back.
Requests == 1..MaxRequests

ConcPayloads ==
  {Payload("X", 0, NoExtras, FALSE, NULL, NULL),
   Payload("X", 1, NoExtras, FALSE, NULL, NULL),
   Payload("Y", 0, [NoExtras EXCEPT !.wide = 1], FALSE, NULL, NULL),
   Payload("Y", 4, NoExtras, FALSE, NULL, NULL)}

IdleRequest == [pc |-> "idle", payload |-> NULL, loaded |-> NULL, code |-> 0]

ConcStartInnings ==
  /\ resp = NoResp
  /\ db' = startInnings(db, "A", "B", "X").match
  /\ resp' = [op |-> "startInnings", code |-> 200, message |-> "Innings initialized"]
  /\ UNCHANGED <<reqs, calc>>

LoadMatch ==
  \E r \in Requests, p \in ConcPayloads :
    /\ resp # NoResp
    /\ reqs[r].pc = "idle"
    /\ reqs' = [reqs EXCEPT ![r] = [pc |-> "loaded", payload |-> p,
                                    loaded |-> db, code |-> 0]]
    /\ UNCHANGED <<db, resp, calc>>

MutateAndSave ==
  \E r \in Requests :
    /\ reqs[r].pc = "loaded"
    /\ LET out == addBall(reqs[r].loaded, reqs[r].payload)
       IN /\ db' = Persisted(db, out)
          /\ resp' = [op |-> "addBall", code |-> out.code, message |-> out.message]
          /\ reqs' = [reqs EXCEPT ![r].pc = "done", ![r].code = out.code]
    /\ UNCHANGED calc

InitConc ==
  /\ db \in {createMatch("in_progress", "A", NULL, 1),
             createMatch("in_progress", "B", NULL, 2)}
  /\ resp = NoResp
  /\ reqs = [r \in Requests |-> IdleRequest]
  /\ calc = NoCalc

NextConc ==
  \/ ConcStartInnings
  \/ LoadMatch
  \/ MutateAndSave

SpecConc == InitConc /\ [][NextConc]_vars

\* --------------------------- SpecResult: the result calculation on any totals
Totals == (0..MaxTotal) \cup {148, 150}

\* a second innings just completed with the given totals
FinishedMatch(first, second) ==
  LET m == createMatch("in_progress", "A", "B", 1)
  IN [m EXCEPT !.currentInningsIndex = 1,
               !.innings[1].totalRuns = first, !.innings[1].completed = TRUE,
               !.innings[2].totalRuns = second, !.innings[2].completed = TRUE]

ResultByBall ==
  /\ calc.via = "none"
  /\ calc' = [calc EXCEPT !.via = "addBall",
                !.result = advanceInnings(FinishedMatch(calc.first, calc.second)).result]
  /\ UNCHANGED <<db, resp, reqs>>

ResultByEndInnings ==
  /\ calc.via = "none"
  /\ calc' = [calc EXCEPT !.via = "endInnings",
                !.result = endInnings(FinishedMatch(calc.first, calc.second)).match.result]
  /\ UNCHANGED <<db, resp, reqs>>

InitResult ==
  /\ db = createMatch("in_progress", "A", "B", 1)
  /\ resp = NoResp
  /\ reqs = NoRequests
  /\ calc \in {[NoCalc EXCEPT !.first = a, !.second = b] : a \in Totals, b \in Totals}

NextResult ==
  \/ ResultByBall
  \/ ResultByEndInnings

SpecResult == InitResult /\ [][NextResult]_vars

\* --------------- SpecBowl: the two consecutive-over checks, with illegal balls
BowlPayloads ==
  {Payload("X", 0, NoExtras, FALSE, NULL, NULL),
   Payload("Y", 0, NoExtras, FALSE, NULL, NULL),
   Payload("X", 0, [NoExtras EXCEPT !.wide = 1], FALSE, NULL, NULL),
   Payload("Y", 0, [NoExtras EXCEPT !.noBall = 1], FALSE, NULL, NULL)}

BowlStartInnings == StartInningsFrom({<<"A", "B", "X">>}, {0})

BowlAddBall == AddBallFrom(BowlPayloads, MaxBowlBalls)

BowlSelectNextBowler ==
  \E bowler \in Bowlers : Serve("selectNextBowler", selectNextBowler(db, bowler))

InitBowl == InitWith({createMatch("in_progress", "A", "B", 0)})

NextBowl ==
  \/ BowlStartInnings
  \/ BowlAddBall
  \/ BowlSelectNextBowler

SpecBowl == InitBowl /\ [][NextBowl]_vars

\* ------------------- SpecStrike: one over of runs, leg-byes and a wicket ball
StrikePayloads ==
  {Payload("X", 0, NoExtras, FALSE, NULL, NULL),
   Payload("X", 1, NoExtras, FALSE, NULL, NULL),
   Payload("X", 0, [NoExtras EXCEPT !.legBye = 1], FALSE, NULL, NULL),
   Payload("X", 0, NoExtras, TRUE, "bowled", "A"),
   Payload("X", 1, NoExtras, TRUE, "RunOut", "B")}

StrikeStartInnings == StartInningsFrom({<<"A", "B", "X">>}, {0})

StrikeAddBall == AddBallFrom(StrikePayloads, MaxStrikeBalls)

InitStrike ==
  InitWith({createMatch("in_progress", "A", "B", 0),
            createMatch("in_progress", "A", NULL, 1)})

NextStrike ==
  \/ StrikeStartInnings
  \/ StrikeAddBall

SpecStrike == InitStrike /\ [][NextStrike]_vars

\* ------------------------ SpecWickets: innings in which every ball is a wicket
\* the dismissed name is in neither partnership slot, so both slots stay set
WicketOnlyPayloads ==
  {Payload("X", 0, [NoExtras EXCEPT !.wide = 1], TRUE, "stumped", "Z"),
   Payload("X", 0, NoExtras, TRUE, "bowled", "Z")}

WicketStartInnings == StartInningsFrom({<<"A", "B", "X">>}, {0})

WicketAddBall == AddBallFrom(WicketOnlyPayloads, MaxWicketBalls)

WicketEndInnings == Serve("endInnings", endInnings(db))

InitWickets ==
  InitWith({createMatch("in_progress", "A", NULL, 1),
            createMatch("in_progress", "A", NULL, 2)})

NextWickets ==
  \/ WicketStartInnings
  \/ WicketAddBall
  \/ WicketEndInnings

SpecWickets == InitWickets /\ [][NextWickets]_vars

\* ------------------------- SpecBoard: the two read projections during a chase
BoardPayloads ==
  {Payload("X", 0, NoExtras, FALSE, NULL, NULL),
   Payload("X", 1, NoExtras, FALSE, NULL, NULL)}

BoardStartInnings == StartInningsFrom({<<"A", "B", "X">>}, {0})

BoardAddBall == AddBallFrom(BoardPayloads, MaxBoardBalls)

BoardEndInnings == Serve("endInnings", endInnings(db))

\* a read: the document is loaded lean and nothing is saved
GetScoreboard ==
  /\ calc' = [NoCalc EXCEPT !.via = "getScoreboard",
                            !.result = getScoreboardRequiredRate(db)]
  /\ UNCHANGED <<db, resp, reqs>>

GetMatchDetails ==
  /\ calc' = [NoCalc EXCEPT !.via = "getMatchDetails",
                            !.result = getMatchDetailsRequiredRate(db)]
  /\ UNCHANGED <<db, resp, reqs>>

InitBoard ==
  InitWith({createMatch("in_progress", "A", NULL, 1),
            createMatch("not_started", "A", NULL, 1),
            createMatch("in_progress", "A", "B", 0)})

NextBoard ==
  \/ BoardStartInnings
  \/ BoardAddBall
  \/ BoardEndInnings
  \/ GetScoreboard
  \/ GetMatchDetails

SpecBoard == InitBoard /\ [][NextBoard]_vars

\* =================================================================== claims
InningsIdx == {1, 2}

RECURSIVE SumTotalRunsThisBall(_)
SumTotalRunsThisBall(balls) ==
  IF balls = <<>> THEN 0
  ELSE Head(balls).totalRunsThisBall + SumTotalRunsThisBall(Tail(balls))

\* C1: for each of the two innings, totalRuns is the sum of totalRunsThisBall
\* over the innings' ball log, and every ball's totalRunsThisBall is its bat
\* runs plus wide + noBall + bye + legBye + penalty.
C1_TotalRunsIsSumOfBalls ==
  \A i \in InningsIdx :
    /\ db.innings[i].totalRuns = SumTotalRunsThisBall(db.innings[i].balls)
    /\ \A k \in 1..Len(db.innings[i].balls) :
         LET b == db.innings[i].balls[k]
         IN b.totalRunsThisBall =
              b.runs + b.extras.wide + b.extras.noBall + b.extras.bye
                + b.extras.legBye + b.extras.penalty

C1_Witness ==
  \E i \in InningsIdx :
    /\ Len(db.innings[i].balls) = 2
    /\ db.innings[i].balls[1].extras.penalty = 1
    /\ db.innings[i].balls[2].extras.wide = 1
    /\ db.innings[i].balls[2].runs = 1
    /\ db.innings[i].totalRuns = 4

\* C2: no legal ball of over K+1 has the bowler of the last legal ball of
\* over K, for every legal ball of over K+1 and whoever bowled the earlier
\* balls of over K.
C2_NoBowlerInConsecutiveOvers ==
  \A i \in InningsIdx :
    LET legal == LegalBalls(db.innings[i])
    IN \A j \in 1..Len(legal), k \in 1..Len(legal) :
         (/\ j < k
          /\ legal[k].over = legal[j].over + 1
          /\ \A l \in (j + 1)..Len(legal) : legal[l].over # legal[j].over)
           => legal[k].bowler # legal[j].bowler

\* C3: two interleaved addBall requests never both succeed against the same
\* loaded document, and the persisted ball log, totalRuns and legalDeliveries
\* reflect every acknowledged ball.
Acknowledged == {r \in DOMAIN reqs : reqs[r].pc = "done" /\ reqs[r].code = 200}

RECURSIVE SumOver(_, _)
SumOver(S, f) ==
  IF S = {} THEN 0
  ELSE LET x == CHOOSE y \in S : TRUE IN f[x] + SumOver(S \ {x}, f)

C3_NoLostUpdate ==
  /\ \A r1 \in Acknowledged, r2 \in Acknowledged :
       r1 # r2 => reqs[r1].loaded # reqs[r2].loaded
  /\ TotalBalls(db) = Cardinality(Acknowledged)
  /\ db.innings[1].totalRuns + db.innings[2].totalRuns
       = SumOver(Acknowledged, [r \in Acknowledged |-> totalRunsThisBall(reqs[r].payload)])
  /\ db.innings[1].legalDeliveries + db.innings[2].legalDeliveries
       = SumOver(Acknowledged,
                 [r \in Acknowledged |->
                    IF isLegalDelivery(reqs[r].payload.extras) THEN 1 ELSE 0])

AllPayloads == Payloads \cup OverPayloads

\* C4: every rejected addBall, whatever the reason, leaves the persisted match
\* exactly as it was.
C4_RejectedBallChangesNothing ==
  \A p \in AllPayloads :
    addBall(db, p).code # 200 => Persisted(db, addBall(db, p)) = db

C4_Witness ==
  /\ resp.op = "addBall"
  /\ resp.code = 400
  /\ resp.message = "Bowler cannot bowl consecutive overs"
  /\ CurrentInnings(db).legalDeliveries = BallsPerOver
  /\ Len(CurrentInnings(db).balls) = BallsPerOver

\* C5: endInnings on an innings that is already completed is rejected and
\* changes nothing, and an endInnings that follows the endInnings of the first
\* innings does not complete the second innings and the match.
C5_EndInningsRejectsCompleted ==
  /\ CurrentInnings(db).completed =>
       /\ endInnings(db).code # 200
       /\ Persisted(db, endInnings(db)) = db
  /\ (resp.op = "endInnings" /\ db.status # "completed") =>
       Persisted(db, endInnings(db)).status # "completed"

\* C6: startInnings is rejected, leaving the partnership and the ledgers as
\* they were, whenever the active innings has a delivery in its ball log.
C6_StartInningsRejectsAfterDelivery ==
  Len(CurrentInnings(db).balls) >= 1 =>
    \A in \in StartInputs :
      LET r == startInnings(db, in[1], in[2], in[3])
      IN /\ r.code = 400
         /\ Persisted(db, r) = db

\* C7: addBall is rejected, and no ball is appended, whenever the match is not
\* in progress, the active innings is completed, or the striker or the
\* non-striker slot is unset.
C7_BallRejectedOutsideActivePlay ==
  \A p \in Payloads :
    LET cur == CurrentInnings(db)
        r == addBall(db, p)
    IN (\/ db.status # "in_progress"
        \/ cur.completed
        \/ cur.currentPartnership.striker = NULL
        \/ cur.currentPartnership.nonStriker = NULL)
         => /\ r.code = 400
            /\ \A i \in InningsIdx :
                 Persisted(db, r).innings[i].balls = db.innings[i].balls

C7_Witness ==
  /\ resp.op = "addBall"
  /\ resp.message = "Both striker and nonStriker must be set"
  /\ db.status = "in_progress"
  /\ ~CurrentInnings(db).completed
  /\ CurrentInnings(db).currentPartnership.striker # NULL
  /\ CurrentInnings(db).currentPartnership.nonStriker = NULL
  /\ Len(CurrentInnings(db).balls) >= 1

\* C8: the addBall that brings the active innings' legalDeliveries to
\* oversLimit*6 marks it completed; for the first innings the same step moves
\* currentInningsIndex to 1 and gives an unset second teamName the other team.
C8_OversLimitCompletesInnings ==
  [][LET i == db.currentInningsIndex + 1
     IN (/\ resp'.op = "addBall"
         /\ resp'.code = 200
         /\ db'.innings[i].legalDeliveries = db.innings[i].legalDeliveries + 1
         /\ db'.innings[i].legalDeliveries = db.innings[i].oversLimit * BallsPerOver)
          => /\ db'.innings[i].completed
             /\ i = 1 =>
                  /\ db'.currentInningsIndex = 1
                  /\ db.innings[2].teamName = NULL =>
                       /\ db'.innings[2].teamName # NULL
                       /\ db'.innings[2].teamName # db.innings[1].teamName]_vars

C8_Witness ==
  /\ resp.op = "addBall"
  /\ resp.code = 200
  /\ db.currentInningsIndex = 1
  /\ db.innings[1].completed
  /\ db.innings[1].legalDeliveries = db.innings[1].oversLimit * BallsPerOver
  /\ db.innings[1].teamName = "B"
  /\ db.innings[2].teamName = "A"
  /\ db.innings[2].balls = <<>>

\* C9: the step that completes the second innings, by the overs limit or by
\* endInnings, sets the match status to completed and sets result.winner; the
\* match is never completed with an unset winner.
C9_SecondInningsCompletesMatch ==
  [][/\ (db'.innings[2].completed /\ ~db.innings[2].completed) =>
          (db'.status = "completed" /\ db'.result.winner # NULL)
     /\ db'.status = "completed" => db'.result.winner # NULL]_vars

C9_Witness ==
  /\ resp.op = "addBall"
  /\ resp.code = 200
  /\ db.status = "completed"
  /\ db.innings[2].completed
  /\ db.innings[2].legalDeliveries = BallsPerOver
  /\ db.result.winner = db.innings[2].teamName

\* C10: on any pair of final totals the winner is the second innings' team
\* when second > first, the first innings' team when second < first, and "tie"
\* exactly when the totals are equal, whichever handler computed it.
C10_WinnerByTotals ==
  calc.via # "none" =>
    LET m == FinishedMatch(calc.first, calc.second)
    IN /\ calc.second > calc.first => calc.result.winner = m.innings[2].teamName
       /\ calc.second < calc.first => calc.result.winner = m.innings[1].teamName
       /\ calc.result.winner = "tie" <=> calc.second = calc.first

C10_Witness ==
  /\ calc.via = "addBall"
  /\ calc.first = 150
  /\ calc.second = 148
  /\ calc.result.winner = "A"

ConsecutiveOvers == "Bowler cannot bowl consecutive overs"

LegalBallBy(bowler) == Payload(bowler, 0, NoExtras, FALSE, NULL, NULL)

C12_SameBowlerRejectedAfterOver ==
  \A b \in Bowlers :
    LET innings == CurrentInnings(db)
        n == innings.legalDeliveries
        over == LegalBallsOfOver(innings, (n \div BallsPerOver) - 1)
    IN (/\ n > 0
        /\ n % BallsPerOver = 0
        /\ \A k \in 1..Len(over) : over[k].bowler = b)
         => /\ addBall(db, LegalBallBy(b)).code = 400
            /\ addBall(db, LegalBallBy(b)).message = ConsecutiveOvers

C12_Witness ==
  LET innings == CurrentInnings(db)
  IN /\ resp.op = "addBall"
     /\ resp.message = ConsecutiveOvers
     /\ innings.legalDeliveries = BallsPerOver
     /\ Len(innings.balls) = BallsPerOver + 1
     /\ \A k \in 1..BallsPerOver : innings.balls[k].bowler = "X"
     /\ innings.balls[BallsPerOver + 1].ballInOver = 0
     /\ innings.balls[BallsPerOver + 1].over = 1

\* the step is an accepted addBall that appended a ball to innings i
BallAccepted(i) ==
  /\ resp'.op = "addBall"
  /\ resp'.code = 200
  /\ Len(db'.innings[i].balls) = Len(db.innings[i].balls) + 1

LastBall(innings) == innings.balls[Len(innings.balls)]

\* C13: a non-wicket legal delivery that does not complete an over swaps the
\* striker and the non-striker when bat runs + byes + leg-byes is odd and
\* leaves both where they were when it is even.
C13_OddRunsSwapStrike ==
  [][LET i == db.currentInningsIndex + 1
         cp == db.innings[i].currentPartnership
         cpAfter == db'.innings[i].currentPartnership
         rec == LastBall(db'.innings[i])
     IN (/\ BallAccepted(i)
         /\ ~rec.isWicket
         /\ rec.extras.wide = 0
         /\ rec.extras.noBall = 0
         /\ db'.innings[i].legalDeliveries % BallsPerOver # 0)
          => IF (rec.runs + rec.extras.bye + rec.extras.legBye) % 2 = 1
             THEN /\ cpAfter.striker = cp.nonStriker
                  /\ cpAfter.nonStriker = cp.striker
                  /\ cpAfter.striker # cp.striker
             ELSE /\ cpAfter.striker = cp.striker
                  /\ cpAfter.nonStriker = cp.nonStriker]_vars

C13_Witness ==
  LET innings == CurrentInnings(db)
  IN /\ resp.op = "addBall"
     /\ resp.code = 200
     /\ Len(innings.balls) = 2
     /\ innings.balls[1].runs = 4
     /\ innings.balls[1].striker = "A"
     /\ innings.balls[2].striker = "A"
     /\ innings.balls[2].runs = 0
     /\ innings.balls[2].extras.bye = 1
     /\ innings.currentPartnership.striker = "B"
     /\ innings.currentPartnership.nonStriker = "A"

\* C14: a legal delivery that brings legalDeliveries to a multiple of 6 swaps
\* the two partnership slots once more, after the odd-run swap of a non-wicket
\* ball (odd sum: strike unchanged, even sum: swapped) and after the slot
\* clearing of a wicket ball.
C14_OverEndSwapsStrike ==
  [][LET i == db.currentInningsIndex + 1
         cp == db.innings[i].currentPartnership
         cpAfter == db'.innings[i].currentPartnership
         rec == LastBall(db'.innings[i])
         odd == (rec.runs + rec.extras.bye + rec.extras.legBye) % 2 = 1
         strikerOut == rec.wicketPlayer = cp.striker
         nonStrikerOut == ~strikerOut /\ rec.wicketPlayer = cp.nonStriker
         \* the slots before the swap at the end of the over
         s == IF rec.isWicket THEN (IF strikerOut THEN NULL ELSE cp.striker)
              ELSE IF odd THEN cp.nonStriker ELSE cp.striker
         n == IF rec.isWicket THEN (IF nonStrikerOut THEN NULL ELSE cp.nonStriker)
              ELSE IF odd THEN cp.striker ELSE cp.nonStriker
     IN (/\ BallAccepted(i)
         /\ db'.innings[i].legalDeliveries = db.innings[i].legalDeliveries + 1
         /\ db'.innings[i].legalDeliveries % BallsPerOver = 0)
          => /\ cpAfter.striker = n
             /\ cpAfter.nonStriker = s
             /\ (~rec.isWicket /\ odd) => cpAfter.striker = cp.striker
             /\ (~rec.isWicket /\ ~odd) => cpAfter.striker = cp.nonStriker]_vars

C14_Witness ==
  LET innings == db.innings[1]
  IN /\ resp.op = "addBall"
     /\ resp.code = 200
     /\ innings.legalDeliveries = BallsPerOver
     /\ LastBall(innings).isWicket
     /\ LastBall(innings).striker = "A"
     /\ LastBall(innings).wicketPlayer = "A"
     /\ innings.currentPartnership.striker = "B"
     /\ innings.currentPartnership.nonStriker = NULL

\* C15: legalDeliveries is the number of balls in the log with a nonzero
\* ballInOver, before and after every step, and an accepted addBall adds
\* exactly 1 to it when the ball has neither a wide nor a no-ball and adds
\* nothing otherwise.
C15_LegalDeliveriesCountsLegalBalls ==
  [][LET i == db.currentInningsIndex + 1
         rec == LastBall(db'.innings[i])
     IN /\ \A j \in InningsIdx :
             /\ db.innings[j].legalDeliveries = Len(LegalBalls(db.innings[j]))
             /\ db'.innings[j].legalDeliveries = Len(LegalBalls(db'.innings[j]))
        /\ BallAccepted(i) =>
             db'.innings[i].legalDeliveries =
               db.innings[i].legalDeliveries
                 + (IF rec.extras.wide = 0 /\ rec.extras.noBall = 0 THEN 1 ELSE 0)]_vars

C15_Witness ==
  LET innings == CurrentInnings(db)
  IN /\ resp.op = "addBall"
     /\ resp.code = 200
     /\ Len(innings.balls) = 2
     /\ innings.balls[1].ballInOver = 1
     /\ innings.balls[2].extras.noBall = 1
     /\ innings.balls[2].runs = 1
     /\ innings.balls[2].ballInOver = 0
     /\ innings.legalDeliveries = 1

\* ledger entries of the innings with the given name that are marked out
OutEntries(innings, name) ==
  {k \in 1..Len(innings.batsmen) :
     /\ innings.batsmen[k].name = name
     /\ innings.batsmen[k].isOut
     /\ innings.batsmen[k].dismissal # NULL}

\* C16: every accepted ball flagged isWicket marks one batsman's ledger entry
\* out with a non-null dismissal kind and appends exactly one fall-of-wicket
\* record whose scoreAtFall is the innings total including that ball, so that
\* the number of fall-of-wicket records always equals innings.wickets.
C16_WicketAppendsFallOfWicket ==
  [][LET i == db.currentInningsIndex + 1
         before == db.innings[i]
         after == db'.innings[i]
         rec == LastBall(after)
     IN /\ (BallAccepted(i) /\ rec.isWicket) =>
             /\ \E k \in 1..Len(after.batsmen) :
                  /\ after.batsmen[k].isOut
                  /\ after.batsmen[k].dismissal # NULL
             /\ Len(after.fallOfWickets) = Len(before.fallOfWickets) + 1
             /\ after.fallOfWickets[Len(after.fallOfWickets)].scoreAtFall
                  = before.totalRuns + rec.totalRunsThisBall
        /\ \A j \in InningsIdx :
             Len(db'.innings[j].fallOfWickets) = db'.innings[j].wickets]_vars

NeutralKinds == {"runout", "RunOut", "obstructingthefield", "retired", "Retired"}

BowlerWickets(innings, name) ==
  IF \E k \in 1..Len(innings.bowlers) : innings.bowlers[k].name = name
  THEN innings.bowlers[BowlerIdx(innings, name)].wickets
  ELSE 0

\* C17: an accepted wicket ball adds 1 to the bowler's wickets unless the
\* dismissal kind is runout, obstructing the field or retired; with one of
\* those kinds the bowler's wickets stay as they were, the innings wickets
\* still grow by 1, the batsman the ball names is marked out and the slot that
\* held them is cleared.
C17_BowlerCreditedUnlessNeutral ==
  [][LET i == db.currentInningsIndex + 1
         before == db.innings[i]
         after == db'.innings[i]
         cp == before.currentPartnership
         cpAfter == after.currentPartnership
         rec == LastBall(after)
         neutral == rec.wicketType \in NeutralKinds
     IN (BallAccepted(i) /\ rec.isWicket) =>
          /\ after.wickets = before.wickets + 1
          /\ BowlerWickets(after, rec.bowler) =
               BowlerWickets(before, rec.bowler) + (IF neutral THEN 0 ELSE 1)
          /\ (neutral /\ rec.wicketPlayer # NULL) =>
               /\ OutEntries(after, rec.wicketPlayer) # {}
               /\ rec.wicketPlayer \in {cp.striker, cp.nonStriker} =>
                    /\ rec.wicketPlayer \notin {cpAfter.striker, cpAfter.nonStriker}
                    /\ NULL \in {cpAfter.striker, cpAfter.nonStriker}]_vars

C17_Witness ==
  LET innings == CurrentInnings(db)
  IN /\ resp.op = "addBall"
     /\ resp.code = 200
     /\ Len(innings.balls) = 2
     /\ innings.balls[1].wicketType = "bowled"
     /\ innings.balls[1].wicketPlayer = "Z"
     /\ innings.balls[2].wicketType = "RunOut"
     /\ innings.balls[2].wicketPlayer = "B"
     /\ BowlerWickets(innings, "X") = 1
     /\ innings.wickets = 2
     /\ OutEntries(innings, "B") # {}
     /\ innings.currentPartnership.striker = "A"
     /\ innings.currentPartnership.nonStriker = NULL

\* C18: selectNextBatsman puts the name into the striker slot when that is
\* empty, otherwise into the non-striker slot when that is empty, leaving the
\* other slot and the partnership runs as they were; with both slots taken it
\* is rejected and changes nothing.
C18_NextBatsmanFillsFirstEmptySlot ==
  \A name \in NextBatsmen \ {NULL} :
    LET r == selectNextBatsman(db, name)
        cp == CurrentInnings(db).currentPartnership
        cpAfter == CurrentInnings(Persisted(db, r)).currentPartnership
    IN /\ cp.striker = NULL =>
            /\ r.code = 200
            /\ cpAfter = [cp EXCEPT !.striker = name]
       /\ (cp.striker # NULL /\ cp.nonStriker = NULL) =>
            /\ r.code = 200
            /\ cpAfter = [cp EXCEPT !.nonStriker = name]
       /\ (cp.striker # NULL /\ cp.nonStriker # NULL) =>
            /\ r.code = 400
            /\ Persisted(db, r) = db

UnsetBatsmen == "Both striker and nonStriker must be set"

\* C19: once a wicket ball has cleared one partnership slot, a
\* selectNextBatsman that names the incoming batsman leaves both slots of the
\* persisted match filled, and the next addBall is not rejected for an unset
\* striker or non-striker.
C19_NextBatsmanResumesInnings ==
  [][LET cp == CurrentInnings(db).currentPartnership
         cpAfter == CurrentInnings(db').currentPartnership
     IN (/\ resp'.op = "selectNextBatsman"
         /\ resp'.message # "Batsman name required"
         /\ Len(CurrentInnings(db).fallOfWickets) > 0
         /\ (cp.striker = NULL) # (cp.nonStriker = NULL))
          => /\ cpAfter.striker # NULL
             /\ cpAfter.nonStriker # NULL
             /\ \A b \in Bowlers : addBall(db', LegalBallBy(b)).message # UnsetBatsmen]_vars

\* C20: selectNextBowler, accepted or rejected, leaves the persisted match as
\* it was: ball log, totals, ledgers, partnership, flags and match fields.
C20_NextBowlerChangesNothing ==
  [][resp'.op = "selectNextBowler" => db' = db]_vars

C20_Witness ==
  /\ resp.op = "selectNextBowler"
  /\ resp.code = 200
  /\ Len(CurrentInnings(db).balls) = 0
  /\ Len(CurrentInnings(db).bowlers) = 1
  /\ CurrentInnings(db).bowlers[1].name = "X"

NoWideNoNoBall(b) == b.extras.wide = 0 /\ b.extras.noBall = 0

\* bat runs of the balls recorded with the given striker; the bat runs of a
\* wide that is not a no-ball are counted only when onWides is TRUE
RECURSIVE SumBatRuns(_, _, _)
SumBatRuns(balls, name, onWides) ==
  IF balls = <<>> THEN 0
  ELSE LET b == Head(balls)
           counted == /\ b.striker = name
                      /\ (NoWideNoNoBall(b) \/ b.extras.noBall > 0 \/ onWides)
       IN (IF counted THEN b.runs ELSE 0) + SumBatRuns(Tail(balls), name, onWides)

BallsFaced(balls, name) ==
  Cardinality({k \in 1..Len(balls) : balls[k].striker = name /\ NoWideNoNoBall(balls[k])})

\* C21: every batsman's balls is the number of legal deliveries recorded with
\* them as striker, and their runs is the sum of the bat runs of all the
\* deliveries recorded with them as striker, legal or not; no extra of any
\* kind is in it.
C21_BatsmanLedgerMatchesLog ==
  \A i \in InningsIdx :
    \A k \in 1..Len(db.innings[i].batsmen) :
      LET e == db.innings[i].batsmen[k]
      IN /\ e.balls = BallsFaced(db.innings[i].balls, e.name)
         /\ e.runs = SumBatRuns(db.innings[i].balls, e.name, TRUE)

\* C21 (amended): every batsman's balls is the number of legal deliveries
\* recorded with them as striker, and their runs is the sum of the bat runs of
\* the legal deliveries and of the no-balls recorded with them as striker; the
\* bat runs of a wide that is not a no-ball, and every extra, are in no
\* batsman's runs.
C21_BatsmanLedgerMatchesLegalAndNoBalls ==
  \A i \in InningsIdx :
    \A k \in 1..Len(db.innings[i].batsmen) :
      LET e == db.innings[i].batsmen[k]
      IN /\ e.balls = BallsFaced(db.innings[i].balls, e.name)
         /\ e.runs = SumBatRuns(db.innings[i].balls, e.name, FALSE)

C21_Witness ==
  LET innings == CurrentInnings(db)
  IN /\ Len(innings.balls) = 2
     /\ innings.balls[1].extras.noBall = 1
     /\ innings.balls[1].runs = 1
     /\ innings.balls[1].striker = "A"
     /\ innings.balls[2].extras.wide = 1
     /\ innings.balls[2].runs = 1
     /\ innings.balls[2].striker = "B"
     /\ innings.batsmen[BatsmanIdx(innings, "A")].runs = 1
     /\ innings.batsmen[BatsmanIdx(innings, "A")].balls = 0
     /\ innings.batsmen[BatsmanIdx(innings, "B")].runs = 0

RECURSIVE SumBowlers(_, _)
SumBowlers(bowlers, field) ==
  IF bowlers = <<>> THEN 0
  ELSE Head(bowlers)[field] + SumBowlers(Tail(bowlers), field)

BowlerEntry(innings, name) ==
  IF \E k \in 1..Len(innings.bowlers) : innings.bowlers[k].name = name
  THEN innings.bowlers[BowlerIdx(innings, name)]
  ELSE NewBowler(name)

\* C22: an accepted addBall changes the ledger entry of the ball's bowler and
\* of no other bowler: runs grows by the ball's total runs, wides and noBalls
\* by the ball's wide and no-ball extras, balls by 1 for a legal delivery only;
\* the bowlers' runs add up to totalRuns and their balls to legalDeliveries.
C22_OneBowlerEntryPerBall ==
  [][LET i == db.currentInningsIndex + 1
         before == db.innings[i]
         after == db'.innings[i]
         rec == LastBall(after)
         old == BowlerEntry(before, rec.bowler)
         new == BowlerEntry(after, rec.bowler)
     IN /\ BallAccepted(i) =>
             /\ new.runs = old.runs + rec.runs + rec.extras.wide + rec.extras.noBall
                             + rec.extras.bye + rec.extras.legBye + rec.extras.penalty
             /\ new.wides = old.wides + rec.extras.wide
             /\ new.noBalls = old.noBalls + rec.extras.noBall
             /\ new.balls = old.balls + (IF NoWideNoNoBall(rec) THEN 1 ELSE 0)
             /\ \A k \in 1..Len(after.bowlers) :
                  after.bowlers[k].name # rec.bowler =>
                    /\ k <= Len(before.bowlers)
                    /\ after.bowlers[k] = before.bowlers[k]
             /\ Len(after.bowlers) <= Len(before.bowlers) + 1
        /\ \A j \in InningsIdx :
             /\ SumBowlers(db'.innings[j].bowlers, "runs") = db'.innings[j].totalRuns
             /\ SumBowlers(db'.innings[j].bowlers, "balls") = db'.innings[j].legalDeliveries]_vars

C22_Witness ==
  LET innings == CurrentInnings(db)
  IN /\ resp.op = "addBall"
     /\ resp.code = 200
     /\ Len(innings.balls) = 2
     /\ innings.balls[1].bowler = "X"
     /\ innings.balls[1].extras.bye = 1
     /\ innings.balls[2].bowler = "Y"
     /\ innings.balls[2].extras.noBall = 1
     /\ BowlerEntry(innings, "X").runs = 1
     /\ BowlerEntry(innings, "X").balls = 1
     /\ BowlerEntry(innings, "Y").runs = 2
     /\ BowlerEntry(innings, "Y").balls = 0
     /\ BowlerEntry(innings, "Y").noBalls = 1

PartnershipRuns(innings, key) ==
  IF key \in DOMAIN innings.partnerships THEN innings.partnerships[key] ELSE 0

\* C23: a non-wicket ball adds its total runs to the current partnership's
\* runs; a wicket ball adds the current partnership's runs to the partnerships
\* map under the key of the current pair and resets them to 0, clears the slot
\* that holds the dismissed name and keeps the other, and with a dismissed name
\* in neither slot keeps both slots and still resets the runs to 0.
C23_PartnershipFollowsBall ==
  [][LET i == db.currentInningsIndex + 1
         before == db.innings[i]
         after == db'.innings[i]
         cp == before.currentPartnership
         cpAfter == after.currentPartnership
         rec == LastBall(after)
         key == <<cp.striker, cp.nonStriker>>
         \* the slots as the ball's branch leaves them, before the over-end swap
         slots == IF rec.wicketPlayer = cp.striker THEN <<NULL, cp.nonStriker>>
                  ELSE IF rec.wicketPlayer = cp.nonStriker THEN <<cp.striker, NULL>>
                  ELSE <<cp.striker, cp.nonStriker>>
     IN BallAccepted(i) =>
          IF ~rec.isWicket
          THEN cpAfter.runs = cp.runs + rec.totalRunsThisBall
          ELSE /\ cpAfter.runs = 0
               /\ PartnershipRuns(after, key) = PartnershipRuns(before, key) + cp.runs
               /\ {cpAfter.striker, cpAfter.nonStriker} = {slots[1], slots[2]}
               /\ after.legalDeliveries % BallsPerOver # 0 =>
                    <<cpAfter.striker, cpAfter.nonStriker>> = slots]_vars

C25_ResultCalculatedOnce ==
  db.status = "completed" =>
    /\ ~endInningsRunsCalculator(db)
    /\ \A p \in Payloads : ~addBallRunsCalculator(db, p)
    /\ finalizeResult(db) = db.result
    /\ determineWinner(db) = db.result

\* C26: in every state endInnings leaves the match as the completion branch of
\* addBall leaves it once the active innings is completed: the innings is
\* completed; after the first innings currentInningsIndex is 1 and an unset
\* second teamName is the other team; after the second innings the status is
\* completed with the winner and summary addBall computes from the same totals.
C26_EndInningsMatchesOversLimitPath ==
  LET idx == db.currentInningsIndex
      m1 == [db EXCEPT !.innings[idx + 1].completed = TRUE]
      out == endInnings(db).match
  IN /\ out = advanceInnings(m1)
     /\ out.innings[idx + 1].completed
     /\ idx = 0 =>
          /\ out.currentInningsIndex = 1
          /\ db.innings[2].teamName = NULL =>
               out.innings[2].teamName = complementTeam(db.innings[1].teamName)
     /\ idx = 1 =>
          /\ out.status = "completed"
          /\ out.result = determineWinner(m1)

C26_Witness ==
  /\ resp.op = "endInnings"
  /\ db.status = "completed"
  /\ db.innings[1].totalRuns = 1
  /\ db.innings[2].totalRuns = 4
  /\ db.innings[2].legalDeliveries = 1
  /\ db.result.winner = db.innings[2].teamName
  /\ db.innings[2].teamName = "A"

WideWicket == Payload("X", 0, [NoExtras EXCEPT !.wide = 1], TRUE, "stumped", "Z")

\* C27: a wicket ball that leaves legalDeliveries below oversLimit*6 leaves the
\* innings not completed and active, whatever the number of wickets, and a
\* further ball is accepted; an innings becomes completed only in an
\* endInnings step or in the addBall step that reaches the overs limit.
C27_WicketsNeverCompleteInnings ==
  [][LET i == db.currentInningsIndex + 1
         after == db'.innings[i]
         rec == LastBall(after)
     IN /\ (/\ BallAccepted(i)
            /\ rec.isWicket
            /\ after.legalDeliveries < after.oversLimit * BallsPerOver)
             => /\ ~after.completed
                /\ db'.currentInningsIndex = db.currentInningsIndex
                /\ db'.status = "in_progress"
                /\ addBall(db', WideWicket).code = 200
        /\ \A j \in InningsIdx :
             (~db.innings[j].completed /\ db'.innings[j].completed) =>
               \/ resp'.op = "endInnings"
               \/ /\ resp'.op = "addBall"
                  /\ db'.innings[j].legalDeliveries = db.innings[j].legalDeliveries + 1
                  /\ db'.innings[j].legalDeliveries
                       = db'.innings[j].oversLimit * BallsPerOver]_vars

C27_Witness ==
  LET innings == CurrentInnings(db)
  IN /\ resp.op = "addBall"
     /\ resp.code = 200
     /\ innings.wickets = MaxWicketBalls
     /\ Len(innings.fallOfWickets) = MaxWicketBalls
     /\ innings.legalDeliveries < innings.oversLimit * BallsPerOver
     /\ ~innings.completed
     /\ db.status = "in_progress"

\* C28: result.winner is set exactly when the match status is completed, and
\* while the status is not_started or in_progress the winner and the summary
\* are as the match was created with them.
C28_WinnerOnlyWhenCompleted ==
  /\ db.result.winner # NULL <=> db.status = "completed"
  /\ db.status # "completed" => db.result = [winner |-> NULL, summary |-> <<>>]

C28_Witness ==
  /\ resp.op = "endInnings"
  /\ db.status = "completed"
  /\ db.result.winner = "tie"
  /\ db.innings[1].totalRuns = 1
  /\ db.innings[2].totalRuns = 1

IsPrefix(s, t) == Len(s) <= Len(t) /\ SubSeq(t, 1, Len(s)) = s

\* C29: in every step, whatever the operation, each innings' ball log before
\* the step is a prefix of the log after it; the logs grow only in an accepted
\* addBall, by one ball in all.
C29_BallLogAppendOnly ==
  [][/\ \A j \in InningsIdx : IsPrefix(db.innings[j].balls, db'.innings[j].balls)
     /\ TotalBalls(db') # TotalBalls(db) =>
          /\ resp'.op = "addBall"
          /\ resp'.code = 200
          /\ TotalBalls(db') = TotalBalls(db) + 1
     /\ (resp'.op = "addBall" /\ resp'.code = 200 /\ db' # db) =>
          TotalBalls(db') = TotalBalls(db) + 1]_vars

C29_Witness ==
  /\ resp.op = "startInnings"
  /\ resp.code = 200
  /\ Len(db.innings[1].balls) = 1
  /\ Len(db.innings[2].balls) = 0
  /\ db.currentInningsIndex = 0
  /\ db.innings[1].balls[1].runs = 4

\* C30: all the legal balls of an innings that carry one over index have one
\* bowler.
C30_OneBowlerPerOver ==
  \A i \in InningsIdx :
    LET legal == LegalBalls(db.innings[i])
    IN \A j \in 1..Len(legal), k \in 1..Len(legal) :
         legal[j].over = legal[k].over => legal[j].bowler = legal[k].bowler

\* C31: the required rate of getScoreboard and of getMatchDetails is null
\* whenever the second innings has no balls left or firstInningsRuns + 1 -
\* currentRuns is 0 or less, it is a number only while the second innings is
\* the active innings, and the two are null in the same states.
C31_RequiredRateNullTogether ==
  LET s == getScoreboardRequiredRate(db)
      d == getMatchDetailsRequiredRate(db)
      second == db.innings[2]
      ballsLeft == second.oversLimit * BallsPerOver - second.legalDeliveries
      required == db.innings[1].totalRuns + 1 - second.totalRuns
  IN /\ (ballsLeft = 0 \/ required <= 0) => (s.isNull /\ d.isNull)
     /\ (~s.isNull \/ ~d.isNull) => db.currentInningsIndex = 1
     /\ s.isNull <=> d.isNull

\* C32: an innings is marked completed only in a step taken while the match is
\* in progress and after startInnings has set the innings' openers, and the
\* match becomes completed only from the status in_progress.
C32_CompletedOnlyAfterActive ==
  [][/\ \A j \in InningsIdx :
          (~db.innings[j].completed /\ db'.innings[j].completed) =>
            /\ db.status = "in_progress"
            /\ Len(db.innings[j].batsmen) > 0
     /\ (db.status # "completed" /\ db'.status = "completed") =>
          db.status = "in_progress"]_vars

\* C33: an accepted non-wicket wide or no-ball leaves the striker and the
\* non-striker where they were, whatever its bat runs, byes and leg-byes.
C33_IllegalBallKeepsStrike ==
  [][LET i == db.currentInningsIndex + 1
         cp == db.innings[i].currentPartnership
         cpAfter == db'.innings[i].currentPartnership
         rec == LastBall(db'.innings[i])
     IN (BallAccepted(i) /\ ~rec.isWicket /\ ~NoWideNoNoBall(rec))
          => /\ cpAfter.striker = cp.striker
             /\ cpAfter.nonStriker = cp.nonStriker]_vars

\* C33 (amended): an accepted non-wicket wide or no-ball swaps the striker and
\* the non-striker when bat runs + byes + leg-byes is odd, as a legal delivery
\* does, and leaves them where they were when it is even; the wide and no-ball
\* extras are not in the sum.
C33_IllegalBallSwapsOnOddRuns ==
  [][LET i == db.currentInningsIndex + 1
         cp == db.innings[i].currentPartnership
         cpAfter == db'.innings[i].currentPartnership
         rec == LastBall(db'.innings[i])
     IN (BallAccepted(i) /\ ~rec.isWicket /\ ~NoWideNoNoBall(rec))
          => IF (rec.runs + rec.extras.bye + rec.extras.legBye) % 2 = 1
             THEN /\ cpAfter.striker = cp.nonStriker
                  /\ cpAfter.nonStriker = cp.striker
                  /\ cpAfter.striker # cp.striker
             ELSE /\ cpAfter.striker = cp.striker
                  /\ cpAfter.nonStriker = cp.nonStriker]_vars

C33_Witness ==
  LET innings == CurrentInnings(db)
  IN /\ resp.op = "addBall"
     /\ resp.code = 200
     /\ Len(innings.balls) = 2
     /\ innings.balls[1].extras.wide = 1
     /\ innings.balls[1].runs = 0
     /\ innings.balls[2].striker = "A"
     /\ innings.balls[2].extras.noBall = 1
     /\ innings.balls[2].runs = 1
     /\ innings.currentPartnership.striker = "B"
     /\ innings.currentPartnership.nonStriker = "A"

\* C34: currentInningsIndex is 0 or 1 and never decreases; at index 1 the first
\* innings is completed; a completed match has both innings completed and
\* index 1; no completed flag is cleared and a completed match stays completed.
C34_LifecycleMonotone ==
  [][/\ db'.currentInningsIndex \in {0, 1}
     /\ db'.currentInningsIndex >= db.currentInningsIndex
     /\ db'.currentInningsIndex = 1 => db'.innings[1].completed
     /\ db'.status = "completed" =>
          /\ db'.innings[1].completed
          /\ db'.innings[2].completed
          /\ db'.currentInningsIndex = 1
     /\ \A j \in InningsIdx : db.innings[j].completed => db'.innings[j].completed
     /\ db.status = "completed" => db'.status = "completed"]_vars

C34_Witness ==
  /\ resp.op = "startInnings"
  /\ resp.code = 200
  /\ db.status = "completed"
  /\ db.currentInningsIndex = 1
  /\ db.innings[1].completed
  /\ db.innings[2].completed
  /\ Len(db.innings[1].balls) = 1
  /\ Len(db.innings[2].balls) = 1

\* C35: once the match status is completed, every startInnings, addBall,
\* selectNextBatsman and endInnings call is rejected and leaves the persisted
\* match as it was.
C35_CompletedMatchFrozen ==
  [][(db.status = "completed"
        /\ resp'.op \in {"startInnings", "addBall", "selectNextBatsman", "endInnings"})
       => /\ resp'.code # 200
          /\ db' = db]_vars

\* C36: in each innings the values of the partnerships map plus the runs of
\* the current partnership add up to totalRunsThisBall summed over the
\* non-wicket balls of the log.
C36_PartnershipRunsConserved ==
  \A j \in InningsIdx :
    LET innings == db.innings[j]
        nonWicket == {k \in DOMAIN innings.balls : ~innings.balls[k].isWicket}
    IN SumOver(DOMAIN innings.partnerships, innings.partnerships)
         + innings.currentPartnership.runs
       = SumOver(nonWicket, [k \in nonWicket |-> innings.balls[k].totalRunsThisBall])

\* C38: when both partnership slots are filled, the striker and the
\* non-striker are different names and neither has a ledger entry marked out.
C38_CreaseDistinctAndNotOut ==
  \A j \in InningsIdx :
    LET innings == db.innings[j]
        cp == innings.currentPartnership
    IN (cp.striker # NULL /\ cp.nonStriker # NULL) =>
         /\ cp.striker # cp.nonStriker
         /\ \A k \in DOMAIN innings.batsmen :
              innings.batsmen[k].isOut =>
                innings.batsmen[k].name \notin {cp.striker, cp.nonStriker}

\* C37: in an innings with oversLimit >= 1, legalDeliveries never exceeds
\* oversLimit * 6, and a step appends a ball (legal, wide or no-ball) only to
\* an innings whose legalDeliveries is still below oversLimit * 6.
C37_NoBallBeyondOversLimit ==
  [][\A j \in InningsIdx :
       LET before == db.innings[j]
           after == db'.innings[j]
       IN before.oversLimit >= 1 =>
            /\ before.legalDeliveries <= before.oversLimit * BallsPerOver
            /\ after.legalDeliveries <= after.oversLimit * BallsPerOver
            /\ Len(after.balls) > Len(before.balls) =>
                 before.legalDeliveries < before.oversLimit * BallsPerOver
            /\ before.legalDeliveries = before.oversLimit * BallsPerOver =>
                 after.balls = before.balls]_vars

C37_Witness ==
  LET second == db.innings[2]
  IN /\ resp.op = "addBall"
     /\ resp.code = 400
     /\ second.oversLimit = 1
     /\ second.legalDeliveries = BallsPerOver
     /\ Len(second.balls) = BallsPerOver + 1
     /\ \E k \in DOMAIN second.balls : second.balls[k].extras.wide = 1
     /\ second.completed
     /\ db.status = "completed"

====
